---- MODULE Spec2Model ----
(***************************************************************************)
(* Model of the YouTube downloader (Exam_project_Rust): the egui consumer  *)
(* loop MyApp::update, the per-download Runner spawn_download, the         *)
(* thumbnail fetchers, the progress channels between them and the shared   *)
(* yt-dlp executable in the temp directory.                                *)
(*                                                                         *)
(* Progress values are f32 fractions in the program; the model keeps them  *)
(* as integers in hundredths (0.62 is 62, 1.0 is 100).  Text is kept as a  *)
(* sequence of lexical tokens (a line "downloaded_bytes:  62.0%" is        *)
(* <<"downloaded_bytes:", " ", "62.0", "%">>).                             *)
(***************************************************************************)
EXTENDS Integers, Sequences, FiniteSets, TLC

\* ---------------------------------------------------------------- bounds
\* Number of accepted Download clicks in one run.
MaxSubmits == 2
\* Number of output lines one external process prints before its stream ends.
MaxLines == 2
\* Number of write calls write_all needs for the embedded payload.
NChunks == 2

\* ------------------------------------------------------------- constants
\* 1.0 in hundredths.
One == 100

Downloading == "Downloading"
Done == "Done"

\* Option<T>: None is the empty sequence, Some(v) is <<v>>.
None == <<>>
Some(v) == <<v>>
IsSome(o) == o # <<>>
Unwrap(o) == o[1]

\* ------------------------------------------------------------ text model
PFX == "downloaded_bytes:"
WS == " "
PCT == "%"

\* str::parse::<f32> on one token: Ok(v) as Some(v), Err as None.
ParseF32(tok) ==
    CASE tok = "30.0" -> Some(30)
      [] tok = "100" -> Some(100)
      [] tok = "120.0" -> Some(120)
      [] tok = "-5" -> Some(-5)
      [] OTHER -> None

\* The output lines the external process may print.
Lines ==
    { <<PFX, WS, "30.0", PCT>>,
      <<PFX, "100", PCT>>,
      <<PFX, "120.0", PCT>>,
      <<PFX, "-5", PCT>>,
      <<"[download]", WS, "30.0", PCT>> }

\* str::trim on a token sequence: drop leading and trailing whitespace.
RECURSIVE TrimStart(_)
TrimStart(s) ==
    IF s # <<>> /\ Head(s) = WS THEN TrimStart(Tail(s)) ELSE s

RECURSIVE TrimEnd(_)
TrimEnd(s) ==
    IF s # <<>> /\ s[Len(s)] = WS THEN TrimEnd(SubSeq(s, 1, Len(s) - 1)) ELSE s

Trim(s) == TrimEnd(TrimStart(s))

\* parse_progress_from_line: Some(v / 100.0), or None.  A percentage v
\* divided by 100.0 is v hundredths, so the number is kept as it is.
parse_progress_from_line(line) ==
    IF line # <<>> /\ Head(line) = PFX
    THEN LET trimmed == Trim(Tail(line)) IN
         IF trimmed # <<>> /\ trimmed[Len(trimmed)] = PCT
         THEN LET number == Trim(SubSeq(trimmed, 1, Len(trimmed) - 1)) IN
              IF Len(number) = 1 THEN ParseF32(number[1]) ELSE None
         ELSE None
    ELSE None

\* URLs the user may paste, as token sequences.
Urls ==
    { <<"https://youtube.com/watch?", "v=", "abc">>,
      <<"https://youtube.com/watch?", "v=", "abc", "&", "t=10">>,
      <<"https://youtube.com/watch?", "v=", "xyz">>,
      <<"https://example.com/">> }

\* The piece of s before the first occurrence of sep.
RECURSIVE Before(_, _)
Before(s, sep) ==
    IF s = <<>> \/ Head(s) = sep THEN <<>>
    ELSE <<Head(s)>> \o Before(Tail(s), sep)

\* Some(the rest of s after the first occurrence of sep), or None without one.
RECURSIVE After(_, _)
After(s, sep) ==
    IF s = <<>> THEN None
    ELSE IF Head(s) = sep THEN Some(Tail(s))
    ELSE After(Tail(s), sep)

\* extract_video_id: url.split("v=").nth(1), then split('&').next().
extract_video_id(url) ==
    LET rest == After(url, "v=") IN
    IF IsSome(rest) THEN Some(Before(Before(Unwrap(rest), "v="), "&")) ELSE None

\* The format expression spawn_download passes after "-f":
\* format!("best[height<={}]", match quality.as_str() { ... }).
QualityFormat(quality) ==
    <<"best[height<=",
      CASE quality = "1080p" -> "1080"
        [] quality = "720p" -> "720"
        [] quality = "480p" -> "480"
        [] quality = "360p" -> "360"
        [] quality = "Audio Only" -> "bestaudio"
        [] OTHER -> "best",
      "]">>

\* Selector strings: quality_options and some strings outside it.
Qualities == {"1080p", "720p", "480p", "360p", "Audio Only", "4K", "best", ""}

\* Lines put together from a first token, whitespace, a payload, whitespace,
\* a last token and whitespace; "" stands for a part that is left out.
LineParts ==
    [ pfx : {PFX, "[download]", ""},
      ws1 : BOOLEAN,
      num : {"30.0", "100", "120.0", "-5", "abc", ""},
      ws2 : BOOLEAN,
      pct : {PCT, ""},
      ws3 : BOOLEAN ]

Tok(t) == IF t = "" THEN <<>> ELSE <<t>>

BuildLine(c) ==
    Tok(c.pfx) \o (IF c.ws1 THEN <<WS>> ELSE <<>>) \o Tok(c.num)
        \o (IF c.ws2 THEN <<WS>> ELSE <<>>) \o Tok(c.pct)
        \o (IF c.ws3 THEN <<WS>> ELSE <<>>)

\* ----------------------------------------------------------------- state
VARIABLES
    downloads,          \* MyApp.downloads: Vec<DownloadTask>
    thumbnails,         \* MyApp.thumbnails: video id -> texture
    thumbnail_results,  \* MyApp.thumbnail_results: the lock-guarded buffer
    progress_rxs,       \* MyApp.progress_rxs: video id -> receiver (channel number)
    chan,               \* the unbounded channels, one per accepted submission
    runner,             \* the spawn_download futures, one per accepted submission
    fetcher,            \* the spawn_blocking thumbnail closures
    file,               \* the yt-dlp file in the temp directory
    asset,              \* whether Asset::get(bin) finds the embedded payload
    sent,               \* history: the values runner n passed to progress_tx.send
    applied,            \* history: the values update() received from channel n
    call                \* one call of a pure function: its argument and result

vars == <<downloads, thumbnails, thumbnail_results, progress_rxs, chan, runner,
          fetcher, file, asset, sent, applied, call>>

EmptyMap == [x \in {} |-> {}]

\* NewTask with the wrong variant of DownloadStatus.
NewTask_Done(video_id, n) ==
    [ title |-> <<"Video ID: ">> \o video_id,
      video_id |-> video_id,
      status |-> Done,
      progress |-> 0,
      uid |-> n ]

\* DownloadTask.  uid is the number of the submission that created the task;
\* the program has no such field, it names the task in the properties.
NewTask(video_id, n) ==
    [ title |-> <<"Video ID: ">> \o video_id,
      video_id |-> video_id,
      status |-> Downloading,
      progress |-> 0,
      uid |-> n ]

\* A spawn_download future at its first statement; off is the position of
\* its file handle, nread the number of lines it has read.
NewRunner == [pc |-> "asset", off |-> 0, nread |-> 0, res |-> "running"]

NoFile == [exists |-> FALSE, chunks |-> {}, exec |-> FALSE]
FullFile == [exists |-> TRUE, chunks |-> 1..NChunks, exec |-> TRUE]

InitApp ==
    /\ downloads = <<>>
    /\ thumbnails = EmptyMap
    /\ thumbnail_results = <<>>
    /\ progress_rxs = EmptyMap
    /\ chan = <<>>
    /\ runner = <<>>
    /\ fetcher = <<>>
    /\ file \in {NoFile, FullFile}
    /\ asset \in BOOLEAN
    /\ sent = <<>>
    /\ applied = <<>>

\* No pure function is being followed.
NoCall == [fn |-> "none"]

\* The program as MyApp::default() and the start of the process leave it.
Init == InitApp /\ call = NoCall

\* ------------------------------------------------------- MyApp::update
\* Find with the comparison of ids left out: the first task, whatever its id.
Find_AnyTask(dl, id) ==
    IF dl # <<>> THEN 1 ELSE 0

\* self.downloads.iter_mut().find(|t| &t.video_id == id): the index of the
\* first task with that id, 0 when there is none.
Find(dl, id) ==
    IF \E i \in DOMAIN dl : dl[i].video_id = id
    THEN CHOOSE i \in DOMAIN dl :
            /\ dl[i].video_id = id
            /\ \A j \in 1..(i - 1) : dl[j].video_id # id
    ELSE 0

\* ApplyProgress without the "only increase" test.
ApplyProgress_NoGuard(dl, id, prog) ==
    LET i == Find(dl, id) IN
    IF i = 0 THEN dl
    ELSE [dl EXCEPT ![i].progress = prog,
                    ![i].status = IF prog >= One THEN Done ELSE @]

\* ApplyProgress with > 1.0 in place of >= 1.0.
ApplyProgress_LateDone(dl, id, prog) ==
    LET i == Find(dl, id) IN
    IF i = 0 THEN dl
    ELSE IF prog > dl[i].progress
         THEN [dl EXCEPT ![i].progress = prog,
                         ![i].status = IF prog > One THEN Done ELSE @]
         ELSE dl

\* ApplyProgress setting the status from every received value, outside the
\* "only increase" test.
ApplyProgress_StatusFollows(dl, id, prog) ==
    LET i == Find(dl, id) IN
    IF i = 0 THEN dl
    ELSE [dl EXCEPT ![i].progress = IF prog > @ THEN prog ELSE @,
                    ![i].status = IF prog >= One THEN Done ELSE Downloading]

\* The body of the try_recv loop for one received value.
ApplyProgress(dl, id, prog) ==
    LET i == Find(dl, id) IN
    IF i = 0 THEN dl
    ELSE IF prog > dl[i].progress
         THEN [dl EXCEPT ![i].progress = prog,
                         ![i].status = IF prog >= One THEN Done ELSE @]
         ELSE dl

\* DrainChannel taking the queued values from the back.
RECURSIVE DrainChannel_Lifo(_, _, _, _)
DrainChannel_Lifo(dl, id, q, got) ==
    IF q = <<>> THEN [dl |-> dl, got |-> got]
    ELSE DrainChannel_Lifo(ApplyProgress(dl, id, q[Len(q)]), id,
                           SubSeq(q, 1, Len(q) - 1), Append(got, q[Len(q)]))

\* while let Ok(prog) = rx.try_recv(): takes the queued values from the
\* front, one at a time; got is the sequence of values received.
RECURSIVE DrainChannel(_, _, _, _)
DrainChannel(dl, id, q, got) ==
    IF q = <<>> THEN [dl |-> dl, got |-> got]
    ELSE DrainChannel(ApplyProgress(dl, id, Head(q)), id, Tail(q),
                      Append(got, Head(q)))

\* DrainAll leaving the outer loop at the first receiver that holds nothing.
RECURSIVE DrainAll_StopsAtEmpty(_, _)
DrainAll_StopsAtEmpty(st, ids) ==
    IF ids = {} THEN st
    ELSE LET id == CHOOSE x \in ids : TRUE
             c == progress_rxs[id]
             r == DrainChannel(st.dl, id, chan[c].queue, <<>>)
         IN IF chan[c].queue = <<>> THEN st
            ELSE DrainAll_StopsAtEmpty(
                     [dl |-> r.dl,
                      applied |-> [st.applied EXCEPT ![c] = @ \o r.got]],
                     ids \ {id})

\* for (id, rx) in self.progress_rxs.iter_mut(): the HashMap's order is
\* arbitrary; each id reaches only the task Find gives for it, so the
\* result does not depend on the order.
RECURSIVE DrainAll(_, _)
DrainAll(st, ids) ==
    IF ids = {} THEN st
    ELSE LET id == CHOOSE x \in ids : TRUE
             c == progress_rxs[id]
             r == DrainChannel(st.dl, id, chan[c].queue, <<>>)
         IN DrainAll([dl |-> r.dl,
                      applied |-> [st.applied EXCEPT ![c] = @ \o r.got]],
                     ids \ {id})

\* DrainThumbnails starting at the second entry of the buffer.
DrainThumbnails_DropsHead(map, pending) ==
    IF pending = <<>> THEN map
    ELSE LET rest == Tail(pending) IN
         [v \in DOMAIN map \cup {rest[k].vid : k \in DOMAIN rest} |->
            IF \E k \in DOMAIN rest : rest[k].vid = v
            THEN rest[CHOOSE k \in DOMAIN rest :
                        /\ rest[k].vid = v
                        /\ \A m \in DOMAIN rest : rest[m].vid = v => m <= k].img
            ELSE map[v]]

\* pending.drain(..) with self.thumbnails.insert(vid, tex) for each entry.
RECURSIVE DrainThumbnails(_, _)
DrainThumbnails(map, pending) ==
    IF pending = <<>> THEN map
    ELSE DrainThumbnails(
            [v \in DOMAIN map \cup {pending[1].vid} |->
                IF v = pending[1].vid THEN pending[1].img ELSE map[v]],
            Tail(pending))

\* Retain removing only the first task it should remove.
Retain_FirstOnly(dl, to_remove) ==
    LET idx == {i \in DOMAIN dl : dl[i].video_id \in to_remove} IN
    IF idx = {} THEN dl
    ELSE LET k == CHOOSE i \in idx : \A j \in idx : i <= j IN
         SubSeq(dl, 1, k - 1) \o SubSeq(dl, k + 1, Len(dl))

\* self.downloads.retain(|t| !to_remove.contains(&t.video_id))
Retain(dl, to_remove) ==
    SelectSeq(dl, LAMBDA t : t.video_id \notin to_remove)

\* The removal loop with its body left out: every receiver stays in the map.
RemoveRxs_KeepsAll(rxs, to_remove) == rxs

\* for id in to_remove { self.progress_rxs.remove(&id); }
RemoveRxs(rxs, to_remove) ==
    [id \in DOMAIN rxs \ to_remove |-> rxs[id]]

\* What the user does in one frame: nothing, a click on the remove button
\* of the task drawn at position i, or a click on Download with url in the
\* text box.  One pointer clicks at most one widget per frame.
Events ==
    [kind : {"none"}]
    \cup [kind : {"remove"}, i : 1..MaxSubmits]
    \cup [kind : {"download"}, url : Urls]

\* One call of MyApp::update.
Update(ev) ==
    LET \* 1: check all progress channels
        st == DrainAll([dl |-> downloads, applied |-> applied],
                       DOMAIN progress_rxs)
        dl1 == st.dl
        chan1 == [c \in DOMAIN chan |->
                    IF \E id \in DOMAIN progress_rxs : progress_rxs[id] = c
                    THEN [chan[c] EXCEPT !.queue = <<>>]
                    ELSE chan[c]]
        \* 2: process fetched thumbnails
        thumbs == DrainThumbnails(thumbnails, thumbnail_results)
        \* 3: the remove button exists only on a task that is Done
        to_remove == IF ev.kind = "remove" THEN {dl1[ev.i].video_id} ELSE {}
        dl3 == IF to_remove = {} THEN dl1 ELSE Retain(dl1, to_remove)
        rxs3 == RemoveRxs(progress_rxs, to_remove)
        chan3 == [c \in DOMAIN chan1 |->
                    IF \E id \in to_remove \cap DOMAIN progress_rxs :
                           progress_rxs[id] = c
                    THEN [chan1[c] EXCEPT !.rx = FALSE, !.queue = <<>>]
                    ELSE chan1[c]]
        \* 4: the Download button
        vid == IF ev.kind = "download" THEN extract_video_id(Trim(ev.url))
               ELSE None
        n == Len(runner) + 1
    IN
    /\ ev.kind = "remove" => ev.i \in DOMAIN dl1 /\ dl1[ev.i].status = Done
    /\ thumbnails' = thumbs
    /\ thumbnail_results' = <<>>
    /\ IF IsSome(vid)
       THEN LET video_id == Unwrap(vid) IN
            /\ n <= MaxSubmits
            /\ downloads' = Append(dl3, NewTask(video_id, n))
            /\ fetcher' = Append(fetcher, [pc |-> "running", id |-> video_id])
            \* insert drops the receiver the map held for this id before
            /\ chan' = Append(
                 [c \in DOMAIN chan3 |->
                    IF video_id \in DOMAIN rxs3 /\ rxs3[video_id] = c
                    THEN [chan3[c] EXCEPT !.rx = FALSE, !.queue = <<>>]
                    ELSE chan3[c]],
                 [queue |-> <<>>, rx |-> TRUE, tx |-> TRUE])
            /\ progress_rxs' = [id \in DOMAIN rxs3 \cup {video_id} |->
                                  IF id = video_id THEN n ELSE rxs3[id]]
            /\ runner' = Append(runner, NewRunner)
            /\ sent' = Append(sent, <<>>)
            /\ applied' = Append(st.applied, <<>>)
       ELSE /\ downloads' = dl3
            /\ chan' = chan3
            /\ progress_rxs' = rxs3
            /\ applied' = st.applied
            /\ UNCHANGED <<fetcher, runner, sent>>
    /\ UNCHANGED <<file, asset, call>>

\* ------------------------------------------------------ spawn_download
\* The values a spawn_download future returns.
Ok == "Ok"
ErrMissing == "Err(Missing yt-dlp)"
ErrIo == "Err(io)"
ErrSpawn == "Err(spawn)"
Errs == {ErrMissing, ErrIo, ErrSpawn}

\* The future returns res (Ok(()) or an Err): progress_tx is dropped.
Finish(r, res) ==
    /\ runner' = [runner EXCEPT ![r].pc = "returned", ![r].res = res]
    /\ chan' = [chan EXCEPT ![r].tx = FALSE]

\* let data = Asset::get(bin).ok_or("Missing yt-dlp")?;
GetAsset(r) ==
    /\ runner[r].pc = "asset"
    /\ IF asset
       THEN runner' = [runner EXCEPT ![r].pc = "exists"] /\ UNCHANGED chan
       ELSE Finish(r, ErrMissing)
    /\ UNCHANGED <<downloads, thumbnails, thumbnail_results, progress_rxs,
                   fetcher, file, asset, sent, applied, call>>

\* if !tmp.exists()
CheckExists(r) ==
    /\ runner[r].pc = "exists"
    /\ runner' = [runner EXCEPT ![r].pc = IF file.exists THEN "spawn" ELSE "create"]
    /\ UNCHANGED <<downloads, thumbnails, thumbnail_results, progress_rxs, chan,
                   fetcher, file, asset, sent, applied, call>>

\* File::create(&tmp)?: creates the file, or truncates the one that is there
\* (its permissions stay).
CreateFile(r) ==
    /\ runner[r].pc = "create"
    /\ file' = [exists |-> TRUE, chunks |-> {}, exec |-> file.exec]
    /\ runner' = [runner EXCEPT ![r].pc = "write", ![r].off = 0]
    /\ UNCHANGED <<downloads, thumbnails, thumbnail_results, progress_rxs, chan,
                   fetcher, asset, sent, applied, call>>

\* f.write_all(&data.data)?: one write call at the handle's own offset.
WriteChunk(r) ==
    /\ runner[r].pc = "write"
    /\ file' = [file EXCEPT !.chunks = @ \cup {runner[r].off + 1}]
    /\ runner' = [runner EXCEPT
                    ![r].off = @ + 1,
                    ![r].pc = IF runner[r].off + 1 = NChunks THEN "chmod" ELSE "write"]
    /\ UNCHANGED <<downloads, thumbnails, thumbnail_results, progress_rxs, chan,
                   fetcher, asset, sent, applied, call>>

\* std::fs::set_permissions(&tmp, Permissions::from_mode(0o755))?
SetPermissions(r) ==
    /\ runner[r].pc = "chmod"
    /\ file' = [file EXCEPT !.exec = TRUE]
    /\ runner' = [runner EXCEPT ![r].pc = "spawn"]
    /\ UNCHANGED <<downloads, thumbnails, thumbnail_results, progress_rxs, chan,
                   fetcher, asset, sent, applied, call>>

\* The file at the path is the whole payload and is executable.
ValidExecutable(f) == f.exists /\ f.chunks = 1..NChunks /\ f.exec

\* Command::new(tmp)...spawn()?: the system refuses to execute a file that
\* is not executable or not a complete binary.
Launch(r) ==
    /\ runner[r].pc = "spawn"
    /\ IF ValidExecutable(file)
       THEN runner' = [runner EXCEPT ![r].pc = "reading"] /\ UNCHANGED chan
       ELSE Finish(r, ErrSpawn)
    /\ UNCHANGED <<downloads, thumbnails, thumbnail_results, progress_rxs,
                   fetcher, file, asset, sent, applied, call>>

\* ReadLine with progress_tx.send(pct)? in place of let _ =: a failed send
\* ends the future.
ReadLine_SendOrReturn(r, line) ==
    LET pct == parse_progress_from_line(line) IN
    /\ runner[r].pc = "reading"
    /\ runner[r].nread < MaxLines
    /\ IF IsSome(pct)
       THEN /\ sent' = [sent EXCEPT ![r] = Append(@, Unwrap(pct))]
            /\ IF chan[r].rx
               THEN /\ runner' = [runner EXCEPT ![r].nread = @ + 1]
                    /\ chan' = [chan EXCEPT ![r].queue = Append(@, Unwrap(pct))]
               ELSE /\ runner' = [runner EXCEPT ![r].nread = @ + 1,
                                                ![r].pc = "returned",
                                                ![r].res = ErrIo]
                    /\ chan' = [chan EXCEPT ![r].tx = FALSE]
       ELSE /\ runner' = [runner EXCEPT ![r].nread = @ + 1]
            /\ UNCHANGED <<sent, chan>>
    /\ UNCHANGED <<downloads, thumbnails, thumbnail_results, progress_rxs,
                   fetcher, file, asset, applied, call>>

\* lines.next_line().await? gives Some(line); a parsed value is sent.
\* UnboundedSender::send fails once the receiver is dropped; let _ = ignores it.
ReadLine(r, line) ==
    LET pct == parse_progress_from_line(line) IN
    /\ runner[r].pc = "reading"
    /\ runner[r].nread < MaxLines
    /\ runner' = [runner EXCEPT ![r].nread = @ + 1]
    /\ IF IsSome(pct)
       THEN /\ sent' = [sent EXCEPT ![r] = Append(@, Unwrap(pct))]
            /\ chan' = IF chan[r].rx
                       THEN [chan EXCEPT ![r].queue = Append(@, Unwrap(pct))]
                       ELSE chan
       ELSE UNCHANGED <<sent, chan>>
    /\ UNCHANGED <<downloads, thumbnails, thumbnail_results, progress_rxs,
                   fetcher, file, asset, applied, call>>

\* lines.next_line().await? gives None: the process closed its output.
ReadEof(r) ==
    /\ runner[r].pc = "reading"
    /\ Finish(r, Ok)
    /\ UNCHANGED <<downloads, thumbnails, thumbnail_results, progress_rxs,
                   fetcher, file, asset, sent, applied, call>>

\* One of the ? operators on an I/O call returns the error: File::create,
\* write_all, set_permissions or next_line.
IoError(r) ==
    /\ runner[r].pc \in {"create", "write", "chmod", "reading"}
    /\ Finish(r, ErrIo)
    /\ UNCHANGED <<downloads, thumbnails, thumbnail_results, progress_rxs,
                   fetcher, file, asset, sent, applied, call>>

\* --------------------------------------------------- thumbnail fetcher
\* fetch_thumbnail gives Some(img): results.lock().unwrap().push((id, img)).
FetchSome(r) ==
    /\ fetcher[r].pc = "running"
    /\ thumbnail_results' =
           Append(thumbnail_results, [vid |-> fetcher[r].id, img |-> r])
    /\ fetcher' = [fetcher EXCEPT ![r].pc = "pushed"]
    /\ UNCHANGED <<downloads, thumbnails, progress_rxs, chan, runner, file,
                   asset, sent, applied, call>>

\* fetch_thumbnail gives None: nothing is pushed.
FetchNone(r) ==
    /\ fetcher[r].pc = "running"
    /\ fetcher' = [fetcher EXCEPT ![r].pc = "none"]
    /\ UNCHANGED <<downloads, thumbnails, thumbnail_results, progress_rxs, chan,
                   runner, file, asset, sent, applied, call>>

\* ------------------------------------------------------ pure functions
\* spawn_download resolves the quality selector it was given.
CallQuality ==
    /\ call.fn = "quality"
    /\ "ret" \notin DOMAIN call
    /\ call' = [fn |-> "quality", arg |-> call.arg,
                ret |-> QualityFormat(call.arg)]
    /\ UNCHANGED <<downloads, thumbnails, thumbnail_results, progress_rxs, chan,
                   runner, fetcher, file, asset, sent, applied>>

\* spawn_download parses one line of the process's output.
CallParse ==
    /\ call.fn = "parse"
    /\ "ret" \notin DOMAIN call
    /\ call' = [fn |-> "parse", arg |-> call.arg,
                ret |-> parse_progress_from_line(call.arg)]
    /\ UNCHANGED <<downloads, thumbnails, thumbnail_results, progress_rxs, chan,
                   runner, fetcher, file, asset, sent, applied>>

\* ------------------------------------------------------ specifications
\* The whole program.
Next ==
    \/ \E ev \in Events : Update(ev)
    \/ \E r \in DOMAIN runner : GetAsset(r)
    \/ \E r \in DOMAIN runner : CheckExists(r)
    \/ \E r \in DOMAIN runner : CreateFile(r)
    \/ \E r \in DOMAIN runner : WriteChunk(r)
    \/ \E r \in DOMAIN runner : SetPermissions(r)
    \/ \E r \in DOMAIN runner : Launch(r)
    \/ \E r \in DOMAIN runner, line \in Lines : ReadLine(r, line)
    \/ \E r \in DOMAIN runner : ReadEof(r)
    \/ \E r \in DOMAIN runner : IoError(r)
    \/ \E r \in DOMAIN fetcher : FetchSome(r)
    \/ \E r \in DOMAIN fetcher : FetchNone(r)

Spec == Init /\ [][Next]_vars

\* The registry, the router and the runners' output: the program started
\* with the payload embedded and the executable left in the temp directory
\* by an earlier run, and the thumbnail requests still waiting for the
\* network.
InitRouter == Init /\ asset /\ file = FullFile

NextRouter ==
    \/ \E ev \in Events : Update(ev)
    \/ \E r \in DOMAIN runner : GetAsset(r)
    \/ \E r \in DOMAIN runner : CheckExists(r)
    \/ \E r \in DOMAIN runner : Launch(r)
    \/ \E r \in DOMAIN runner, line \in Lines : ReadLine(r, line)
    \/ \E r \in DOMAIN runner : ReadEof(r)
    \/ \E r \in DOMAIN runner : IoError(r)

SpecRouter == InitRouter /\ [][NextRouter]_vars

\* The first use of the executable: every start of the program, the
\* runners from their first statement, processes that print only the line
\* of a finished download, and the thumbnail requests still waiting for the
\* network.
NextMaterialize ==
    \/ \E ev \in Events : Update(ev)
    \/ \E r \in DOMAIN runner : GetAsset(r)
    \/ \E r \in DOMAIN runner : CheckExists(r)
    \/ \E r \in DOMAIN runner : CreateFile(r)
    \/ \E r \in DOMAIN runner : WriteChunk(r)
    \/ \E r \in DOMAIN runner : SetPermissions(r)
    \/ \E r \in DOMAIN runner : Launch(r)
    \/ \E r \in DOMAIN runner : ReadLine(r, <<PFX, "100", PCT>>)
    \/ \E r \in DOMAIN runner : ReadEof(r)
    \/ \E r \in DOMAIN runner : IoError(r)

SpecMaterialize == Init /\ [][NextMaterialize]_vars

\* update() asks for its next call 100 ms ahead at the end of every call,
\* so a polling cycle that has something to do is not put off for ever.
SpecMaterializeFair ==
    SpecMaterialize /\ WF_vars(Update([kind |-> "none"]))

\* The thumbnails: the consumer loop and the thumbnail closures, with the
\* runners going as far as the start of the child process.
NextThumbs ==
    \/ \E ev \in Events : Update(ev)
    \/ \E r \in DOMAIN runner : GetAsset(r)
    \/ \E r \in DOMAIN runner : CheckExists(r)
    \/ \E r \in DOMAIN runner : Launch(r)
    \/ \E r \in DOMAIN fetcher : FetchSome(r)
    \/ \E r \in DOMAIN fetcher : FetchNone(r)

SpecThumbs == InitRouter /\ [][NextThumbs]_vars

\* The two pure functions of spawn_download, each applied to one argument
\* drawn from the selector strings and the lines above.
InitPure ==
    /\ InitApp
    /\ asset
    /\ file = FullFile
    /\ call \in [fn : {"quality"}, arg : Qualities]
                \cup [fn : {"parse"}, arg : {BuildLine(c) : c \in LineParts}]

NextPure ==
    \/ CallQuality
    \/ CallParse

SpecPure == InitPure /\ [][NextPure]_vars


\* ------------------------------------------------------------ properties
\* The uids of the tasks in a task list.
Uids(dl) == {dl[i].uid : i \in DOMAIN dl}

\* The task list as update() has it after draining the channels, before it
\* draws the panel.
Drained ==
    DrainAll([dl |-> downloads, applied |-> applied], DOMAIN progress_rxs).dl

\* The receiver update() drains for the id of task t holds nothing.
NothingQueuedFor(t) ==
    \/ t.video_id \notin DOMAIN progress_rxs
    \/ chan[progress_rxs[t.video_id]].queue = <<>>

IsPrefix(a, b) == Len(a) <= Len(b) /\ SubSeq(b, 1, Len(a)) = a

UpdateStep == \E ev \in Events : Update(ev)

\* C1: from one state to the next, the progress of a task that stays in
\* the registry never decreases, whatever values arrive and in whatever
\* order and polling cycle.
C1_ProgressMonotonic ==
    [][\A i \in DOMAIN downloads : \A j \in DOMAIN downloads' :
          downloads'[j].uid = downloads[i].uid
              => downloads'[j].progress >= downloads[i].progress]_vars

\* C1 witness: a task received 1.0 and then 0.3 and shows 1.0.
C1_Witness ==
    \E i \in DOMAIN downloads :
        /\ Find(downloads, downloads[i].video_id) = i
        /\ applied[downloads[i].uid] = <<100, 30>>
        /\ downloads[i].progress = 100

\* C2: a polling cycle that applies a value >= 1.0 to a task that is
\* Downloading leaves that task Done (if the cycle leaves it in the
\* registry at all).
C2_DoneInSameCycle ==
    [][UpdateStep =>
        \A id \in DOMAIN progress_rxs :
            LET q == chan[progress_rxs[id]].queue
                i == Find(downloads, id)
            IN (/\ i # 0
                /\ downloads[i].status = Downloading
                /\ \E k \in DOMAIN q : q[k] >= One)
               => /\ Drained[i].status = Done
                  /\ \A j \in DOMAIN downloads' :
                        downloads'[j].uid = downloads[i].uid
                            => downloads'[j].status = Done]_vars

\* C2 witness: a task is Done after its channel delivered exactly 1.0.
C2_Witness ==
    \E i \in DOMAIN downloads :
        /\ Find(downloads, downloads[i].video_id) = i
        /\ downloads[i].status = Done
        /\ applied[downloads[i].uid] = <<30, 100>>

\* C3: the progress of every task lies in [0.0, 1.0].
C3_ProgressInUnitInterval ==
    \A i \in DOMAIN downloads :
        downloads[i].progress >= 0 /\ downloads[i].progress <= One

\* C4: no two tasks in the registry have the same id.
C4_UniqueIds ==
    \A i \in DOMAIN downloads : \A j \in DOMAIN downloads :
        i # j => downloads[i].video_id # downloads[j].video_id

\* C5: a step changes the progress and status of a task only when a value
\* is queued on the channel bound to that task's own id; values on the
\* channel of another id never change it.
C5_Isolation ==
    [][\A i \in DOMAIN downloads : \A j \in DOMAIN downloads' :
          (downloads'[j].uid = downloads[i].uid /\ NothingQueuedFor(downloads[i]))
              => /\ downloads'[j].progress = downloads[i].progress
                 /\ downloads'[j].status = downloads[i].status]_vars

\* C5 witness: two tasks with distinct ids each show the value of their
\* own channel.
C5_Witness ==
    \E i \in DOMAIN downloads : \E j \in DOMAIN downloads :
        /\ downloads[i].video_id # downloads[j].video_id
        /\ applied[downloads[i].uid] = <<30>>
        /\ applied[downloads[j].uid] = <<100>>
        /\ downloads[i].progress = 30
        /\ downloads[j].progress = 100

\* C6: a polling cycle that removes a task leaves no task with that id in
\* the list; the receiver of a removed task is dropped with what it held;
\* what the runner of a removed task sends later is never received, changes
\* no task, and does not stop the runner.
C6_Removal ==
    /\ [][\A i \in DOMAIN Drained :
            Drained[i].uid \notin Uids(downloads')
                => \A j \in DOMAIN downloads' :
                      downloads'[j].video_id # Drained[i].video_id]_vars
    /\ [](\A r \in DOMAIN runner :
            r \notin Uids(downloads) => ~chan[r].rx /\ chan[r].queue = <<>>)
    /\ [][\A r \in DOMAIN runner :
            r \notin Uids(downloads)
                => /\ applied'[r] = applied[r]
                   /\ sent'[r] # sent[r]
                        => /\ downloads' = downloads
                           /\ chan' = chan
                           /\ runner'[r].pc = "reading"]_vars

\* C6 witness: a task was removed after its 1.0 and its runner has sent
\* another value since.
C6_Witness ==
    \E r \in DOMAIN runner :
        /\ r \notin Uids(downloads)
        /\ applied[r] = <<100>>
        /\ sent[r] = <<100, 30>>

\* C7: every task a polling cycle removes was Done when the cycle drew it.
C7_OnlyDoneRemoved ==
    [][\A i \in DOMAIN Drained :
          Drained[i].uid \notin Uids(downloads')
              => Drained[i].status = Done]_vars

\* C8: at most one runner writes the executable, and no runner launches a
\* file that is not completely written and marked executable.
C8_SafeMaterialization ==
    /\ Cardinality({r \in DOMAIN runner : runner[r].off > 0}) <= 1
    /\ \A r \in DOMAIN runner : runner[r].res # ErrSpawn

\* C9: what the router has received from a channel is a prefix of what the
\* runner sent on it, and while the receiver lives the values received and
\* the values queued are together exactly the values sent, in that order.
C9_Fifo ==
    \A r \in DOMAIN runner :
        /\ IsPrefix(applied[r], sent[r])
        /\ chan[r].rx => applied[r] \o chan[r].queue = sent[r]

\* C9 witness: a channel delivered 0.3, -0.05 in the order sent.
C9_Witness ==
    \E r \in DOMAIN runner :
        sent[r] = <<30, -5>> /\ applied[r] = <<30, -5>>

\* C10: at the end of a polling cycle, no task whose runner has returned
\* an error is still Downloading.
C10_FailedTaskLeavesDownloading ==
    [][UpdateStep =>
        \A j \in DOMAIN downloads' :
            (downloads'[j].uid \in DOMAIN runner
                /\ runner[downloads'[j].uid].res \in Errs)
                => downloads'[j].status # Downloading]_vars


\* The three shapes of a format expression: capped at a height, best audio
\* only, best available.
HeightCapped(h) == <<"best[height<=", h, "]">>
BestAudioOnly == <<"bestaudio">>
BestAvailable == <<"best">>

\* C11: the selector mapping gives the height-capped expression for 1080p,
\* 720p, 480p and 360p, the best-audio-only expression for "Audio Only" and
\* the best-available expression for every other string.
C11_QualityMapping ==
    (call.fn = "quality" /\ "ret" \in DOMAIN call)
        => call.ret =
             CASE call.arg = "1080p" -> HeightCapped("1080")
               [] call.arg = "720p" -> HeightCapped("720")
               [] call.arg = "480p" -> HeightCapped("480")
               [] call.arg = "360p" -> HeightCapped("360")
               [] call.arg = "Audio Only" -> BestAudioOnly
               [] OTHER -> BestAvailable

\* The decimal number a payload token denotes, as Some(number), or None when
\* the token is no number.
NumberOf(tok) ==
    CASE tok = "30.0" -> Some(30)
      [] tok = "100" -> Some(100)
      [] tok = "120.0" -> Some(120)
      [] tok = "-5" -> Some(0 - 5)
      [] OTHER -> None

\* The parts that give the line its required form: the prefix, a number
\* with whitespace around it, the percent sign.
HasForm(c) == c.pfx = PFX /\ IsSome(NumberOf(c.num)) /\ c.pct = PCT

\* C12: parse_progress_from_line returns a value only for a line of the
\* form downloaded_bytes:<number>%, the value is number/100 and is not
\* negative, and every other line gives no value.
C12_ParserContract ==
    (call.fn = "parse" /\ "ret" \in DOMAIN call)
        => LET forms == {c \in LineParts : BuildLine(c) = call.arg /\ HasForm(c)}
           IN /\ IsSome(call.ret)
                    => /\ forms # {}
                       /\ \A c \in forms : call.ret = NumberOf(c.num)
                       /\ Unwrap(call.ret) >= 0
              /\ forms = {} => call.ret = None


\* C13: every receiver the router holds is keyed by the id of a task in the
\* registry and is alive, and a polling cycle that removes a task leaves no
\* receiver under that task's id.
C13_ChannelsFollowTasks ==
    /\ [](\A id \in DOMAIN progress_rxs :
            /\ \E i \in DOMAIN downloads : downloads[i].video_id = id
            /\ chan[progress_rxs[id]].rx)
    /\ [][\A i \in DOMAIN Drained :
            Drained[i].uid \notin Uids(downloads')
                => Drained[i].video_id \notin DOMAIN progress_rxs']_vars

\* C13 witness: of two tasks one was removed; its id keys no receiver, its
\* receiver is dropped, and the other task still has its own.
C13_Witness ==
    /\ Len(downloads) = 1
    /\ DOMAIN progress_rxs = {downloads[1].video_id}
    /\ \E r \in DOMAIN runner :
          /\ r \notin Uids(downloads)
          /\ fetcher[r].id # downloads[1].video_id
          /\ ~chan[r].rx

\* C14: a polling cycle applies the values of a receiver only to the task
\* created by the submission that created that receiver.
C14_OwnRunnerOnly ==
    [][UpdateStep =>
        \A id \in DOMAIN progress_rxs :
            (chan[progress_rxs[id]].queue # <<>> /\ Find(downloads, id) # 0)
                => downloads[Find(downloads, id)].uid = progress_rxs[id]]_vars


\* C15: a polling cycle with a click on Download whose URL carries an id
\* appends one task with that id, Downloading and at 0.0, to the tasks as
\* drained, whose status and progress it keeps; it adds one channel, open
\* at both ends and keyed by the id, and one runner at its first statement.
C15_AcceptedSubmission ==
    [][\A ev \in Events :
        (/\ ev.kind = "download"
         /\ IsSome(extract_video_id(Trim(ev.url)))
         /\ Update(ev))
        => LET id == Unwrap(extract_video_id(Trim(ev.url)))
               n == Len(runner) + 1
           IN /\ Len(downloads') = Len(Drained) + 1
              /\ \A i \in DOMAIN Drained :
                    /\ downloads'[i].uid = Drained[i].uid
                    /\ downloads'[i].status = Drained[i].status
                    /\ downloads'[i].progress = Drained[i].progress
              /\ downloads'[Len(downloads')].video_id = id
              /\ downloads'[Len(downloads')].uid = n
              /\ downloads'[Len(downloads')].status = Downloading
              /\ downloads'[Len(downloads')].progress = 0
              /\ Len(chan') = Len(chan) + 1
              /\ chan'[n] = [queue |-> <<>>, rx |-> TRUE, tx |-> TRUE]
              /\ progress_rxs'[id] = n
              /\ Len(runner') = Len(runner) + 1
              /\ runner'[n] = NewRunner
              /\ \A r \in DOMAIN runner : runner'[r] = runner[r]]_vars

\* C15 witness: the second submission is in, its runner has not started,
\* and the first task shows the 0.3 it had received.
C15_Witness ==
    /\ Len(downloads) = 2
    /\ downloads[1].progress = 30
    /\ downloads[1].video_id # downloads[2].video_id
    /\ downloads[2].status = Downloading
    /\ downloads[2].progress = 0
    /\ runner[2] = NewRunner
    /\ progress_rxs[downloads[2].video_id] = 2

\* C16: a polling cycle receives everything queued on every receiver it
\* holds, whether other receivers are empty or their senders are dropped;
\* the step that drops a sender changes no task; a task becomes Done only
\* in a step that finds a value >= 1.0 queued under its id.
C16_EmptyAndClosedChannels ==
    /\ [][UpdateStep =>
            \A id \in DOMAIN progress_rxs :
                applied'[progress_rxs[id]]
                    = applied[progress_rxs[id]] \o chan[progress_rxs[id]].queue]_vars
    /\ [][(\E r \in DOMAIN chan : chan[r].tx /\ ~chan'[r].tx)
            => downloads' = downloads]_vars
    /\ [][\A i \in DOMAIN downloads : \A j \in DOMAIN downloads' :
            (/\ downloads'[j].uid = downloads[i].uid
             /\ downloads[i].status = Downloading
             /\ downloads'[j].status = Done)
                => /\ downloads[i].video_id \in DOMAIN progress_rxs
                   /\ \E k \in DOMAIN chan[progress_rxs[downloads[i].video_id]].queue :
                         chan[progress_rxs[downloads[i].video_id]].queue[k] >= One]_vars

\* C16 witness: one runner has returned and its task shows the 0.3 it sent
\* and is still Downloading, next to a task whose runner sent nothing yet
\* lives.
C16_Witness ==
    \E i \in DOMAIN downloads : \E j \in DOMAIN downloads :
        /\ downloads[i].video_id # downloads[j].video_id
        /\ ~chan[downloads[i].uid].tx
        /\ sent[downloads[i].uid] = <<30>>
        /\ applied[downloads[i].uid] = <<30>>
        /\ downloads[i].status = Downloading
        /\ downloads[i].progress = 30
        /\ chan[downloads[j].uid].tx
        /\ sent[downloads[j].uid] = <<>>

\* C17: a polling cycle changes no runner and drops no sender, whatever it
\* removes; a runner whose receiver is dropped and that sends stays in its
\* read loop.
C17_RemovalDetachesOnly ==
    /\ [][UpdateStep =>
            \A r \in DOMAIN runner :
                runner'[r] = runner[r] /\ chan'[r].tx = chan[r].tx]_vars
    /\ [][\A r \in DOMAIN runner :
            (~chan[r].rx /\ sent'[r] # sent[r])
                => /\ runner'[r].pc = "reading"
                   /\ chan'[r].tx]_vars

\* C17 witness: a task was removed while its runner was reading; the runner
\* has read another line since and is still reading.
C17_Witness ==
    \E r \in DOMAIN runner :
        /\ r \notin Uids(downloads)
        /\ runner[r].pc = "reading"
        /\ runner[r].nread = MaxLines
        /\ applied[r] = <<120>>
        /\ sent[r] = <<120, 100>>

\* C20: a task is Done exactly when its progress is >= 1.0, and a task that
\* is Done and stays in the registry stays Done.
C20_DoneIffComplete ==
    /\ [](\A i \in DOMAIN downloads :
            downloads[i].status = Done <=> downloads[i].progress >= One)
    /\ [][\A i \in DOMAIN downloads : \A j \in DOMAIN downloads' :
            (downloads'[j].uid = downloads[i].uid /\ downloads[i].status = Done)
                => downloads'[j].status = Done]_vars

\* C20 witness: a task received 1.2 and then 0.3 and is Done.
C20_Witness ==
    \E i \in DOMAIN downloads :
        /\ Find(downloads, downloads[i].video_id) = i
        /\ applied[downloads[i].uid] = <<120, 30>>
        /\ downloads[i].status = Done


\* The positions of the buffer that hold the image closure r fetched.
Pending(r) == {k \in DOMAIN thumbnail_results : thumbnail_results[k].img = r}

\* C18: a polling cycle empties the buffer and moves every entry into the
\* map (the last entry of an id is the one the map shows, and ids without
\* an entry keep their texture); the result of a closure that has pushed is
\* either once in the buffer and not in the map, or moved and gone from the
\* buffer; nothing else is in the buffer or the map.
C18_ThumbnailsMovedOnce ==
    /\ [][UpdateStep =>
            /\ thumbnail_results' = <<>>
            /\ \A k \in DOMAIN thumbnail_results :
                  /\ thumbnail_results[k].vid \in DOMAIN thumbnails'
                  /\ \/ thumbnails'[thumbnail_results[k].vid] = thumbnail_results[k].img
                     \/ \E m \in DOMAIN thumbnail_results :
                           m > k /\ thumbnail_results[m].vid = thumbnail_results[k].vid
            /\ \A v \in DOMAIN thumbnails :
                  (\A k \in DOMAIN thumbnail_results : thumbnail_results[k].vid # v)
                      => v \in DOMAIN thumbnails' /\ thumbnails'[v] = thumbnails[v]]_vars
    /\ [](\A r \in DOMAIN fetcher :
            IF fetcher[r].pc = "pushed"
            THEN /\ Cardinality(Pending(r)) <= 1
                 /\ Pending(r) # {}
                        => \A k \in Pending(r) : thumbnail_results[k].vid = fetcher[r].id
                 /\ Pending(r) # {}
                        => ~(fetcher[r].id \in DOMAIN thumbnails
                                /\ thumbnails[fetcher[r].id] = r)
                 /\ Pending(r) = {} => fetcher[r].id \in DOMAIN thumbnails
            ELSE /\ Pending(r) = {}
                 /\ \A v \in DOMAIN thumbnails : thumbnails[v] # r)

\* C18 witness: two closures pushed for two ids, the buffer is drained and
\* the map shows the image of each.
C18_Witness ==
    /\ Len(fetcher) = 2
    /\ fetcher[1].pc = "pushed" /\ fetcher[2].pc = "pushed"
    /\ fetcher[1].id # fetcher[2].id
    /\ thumbnail_results = <<>>
    /\ DOMAIN thumbnails = {fetcher[1].id, fetcher[2].id}
    /\ thumbnails[fetcher[1].id] = 1
    /\ thumbnails[fetcher[2].id] = 2


\* The task of submission u is in the registry.
InRegistry(u) == \E j \in DOMAIN downloads : downloads[j].uid = u

\* The runner of submission u has sent a value of 1.0 or more.
SentComplete(u) ==
    u \in DOMAIN sent /\ \E k \in DOMAIN sent[u] : sent[u][k] >= One

\* The task of submission u is in the registry with status Done.
TaskDone(u) ==
    \E j \in DOMAIN downloads :
        downloads[j].uid = u /\ downloads[j].status = Done

\* C19: under fair polling, once the runner of a submission has sent a value
\* of 1.0 or more while its task is in the registry, that task eventually
\* has status Done.  A task that turns Done and is removed by a click in the
\* same polling cycle is never seen with status Done between two cycles, so
\* a task that has left the registry counts as having reached Done.
C19_CompleteLeadsToDone ==
    \A u \in 1..MaxSubmits :
        (InRegistry(u) /\ SentComplete(u)) ~> (TaskDone(u) \/ ~InRegistry(u))

====
